---- MODULE Spec2Model ----
(***************************************************************************)
(* Model of load_data.py: a linear script that creates two SQL Server      *)
(* tables if missing, widens their string columns, reads two CSV files     *)
(* with pandas, truncates both tables, bulk-inserts both frames and runs   *)
(* three read-only smoke-test queries.                                     *)
(*                                                                         *)
(* Every `with engine.begin()` block and every DataFrame.to_sql call is    *)
(* one database transaction, so each is one atomic action on the committed *)
(* database state (tables, width, rows); a failing transaction rolls back. *)
(***************************************************************************)
EXTENDS Integers, Sequences, FiniteSets, TLC

\* ------------------------------------------------------------------ bounds
MaxRows == 2    \* longest CSV file body, in data rows
MaxRuns == 2    \* how many times the script is started
MaxDrift == 1    \* columns of a pre-existing table whose width differs from DDL
MaxPrior == 1    \* rows a pre-existing table holds before the first run

\* --------------------------------------------------------------- constants
Procs == {1, 2}

NULL == "NULL"

\* NVARCHAR(MAX): 2^30-1 characters; sys metadata reports it as -1
NVARCHAR_MAX == 1073741823

\* a table that does not exist has no columns: COL_LENGTH(...) is NULL
NoColumn == 0

TopN == 5

EnvVars == {"AZ_SQLSERVER", "AZ_DBNAME", "AZ_SQLUSER", "AZ_SQLPASSWORD"}

Brand == "BrandDetail"
Daily == "ConsumerSpendDaily"
TableNames == {Brand, Daily}

BrandCols == <<"BRAND_ID", "BRAND_NAME", "BRAND_TYPE", "BRAND_URL_ADDR",
               "INDUSTRY_NAME", "SUBINDUSTRY_ID", "SUBINDUSTRY_NAME">>
DailyCols == <<"BRAND_ID", "BRAND_NAME", "SPEND_AMOUNT", "STATE_ABBR",
               "TRANS_COUNT", "TRANS_DATE", "VERSION">>

Range(s) == {s[i] : i \in 1..Len(s)}

TableCols(t) == IF t = Brand THEN Range(BrandCols) ELSE Range(DailyCols)

URL == <<Brand, "BRAND_URL_ADDR">>

\* the string columns the script sizes, as <<table, column>>
WidthCols == {<<Brand, "BRAND_NAME">>, <<Brand, "BRAND_TYPE">>, URL,
              <<Brand, "INDUSTRY_NAME">>, <<Brand, "SUBINDUSTRY_NAME">>,
              <<Daily, "BRAND_NAME">>, <<Daily, "STATE_ABBR">>}

\* the widths CREATE TABLE declares, in characters
DDLWidth(c) ==
    CASE c = <<Brand, "BRAND_NAME">>       -> 400
      [] c = <<Brand, "BRAND_TYPE">>       -> 100
      [] c = URL                           -> NVARCHAR_MAX
      [] c = <<Brand, "INDUSTRY_NAME">>    -> 200
      [] c = <<Brand, "SUBINDUSTRY_NAME">> -> 200
      [] c = <<Daily, "BRAND_NAME">>       -> 400
      [] c = <<Daily, "STATE_ABBR">>       -> 50

\* the threshold of each IF COL_LENGTH(...) < n and the NVARCHAR(n) it alters to
WidenTo(c) ==
    CASE c = <<Brand, "BRAND_NAME">>       -> 400
      [] c = <<Brand, "BRAND_TYPE">>       -> 100
      [] c = URL                           -> NVARCHAR_MAX
      [] c = <<Brand, "INDUSTRY_NAME">>    -> 200
      [] c = <<Brand, "SUBINDUSTRY_NAME">> -> 200
      [] c = <<Daily, "BRAND_NAME">>       -> 400
      [] c = <<Daily, "STATE_ABBR">>       -> 50

\* ------------------------------------------------------- SQL Server metadata
\* COL_LENGTH: the column's defined length in BYTES (two per NVARCHAR
\* character), -1 for NVARCHAR(MAX)
COL_LENGTH(w) == IF w = NVARCHAR_MAX THEN -1 ELSE 2 * w

\* INFORMATION_SCHEMA.COLUMNS.character_maximum_length: characters, -1 for MAX
character_maximum_length(w) == IF w = NVARCHAR_MAX THEN -1 ELSE w

\* a comparison with NULL is UNKNOWN, and IF takes the branch only on TRUE
ColLengthLt(w, n) == w # NoColumn /\ COL_LENGTH(w) < n

\* the condition of IF ... BEGIN (no-op) END ELSE ALTER for BRAND_URL_ADDR
UrlNoOp(w) == w # NoColumn /\ character_maximum_length(w) < -1

\* does the WIDEN batch issue ALTER COLUMN for column c of current width w
IssuesAlter(c, w) ==
    IF c = URL THEN ~UrlNoOp(w) ELSE ColLengthLt(w, WidenTo(c))

\* the widths after the WIDEN batch
WidenedWidth(wd) ==
    [c \in WidthCols |-> IF IssuesAlter(c, wd[c]) THEN WidenTo(c) ELSE wd[c]]

\* the ALTER COLUMN statements the WIDEN batch executes
WidenAlters(wd) ==
    {[col |-> c, from |-> wd[c], to |-> WidenTo(c)] :
        c \in {d \in WidthCols : IssuesAlter(d, wd[d])}}

\* the widths after the DDL batch: CREATE TABLE only for a missing table
CreatedWidth(tb, wd) ==
    [c \in WidthCols |-> IF c[1] \in tb THEN wd[c] ELSE DDLWidth(c)]

\* ------------------------------------------------------------- CSV files
\* A header cell is a sequence of tokens; SP is a whitespace character.
SP == " "

\* str.strip(): drop the whitespace at both ends of a header cell
RECURSIVE lstrip(_)
lstrip(h) == IF h # <<>> /\ Head(h) = SP THEN lstrip(Tail(h)) ELSE h

RECURSIVE rstrip(_)
rstrip(h) ==
    IF h # <<>> /\ h[Len(h)] = SP THEN rstrip(SubSeq(h, 1, Len(h) - 1)) ELSE h

strip(h) == rstrip(lstrip(h))

SeqsUpTo(S, n) == UNION {[1..k -> S] : k \in 0..n}

ValidDates == {"2021-01-19", "2021-01-20"}

\* The cells of a CSV file are text. BrandSamples and DailySamples are the
\* records the files are made of.

BrandSamples ==
    {[BRAND_ID |-> "7", BRAND_NAME |-> "acme", BRAND_TYPE |-> ty,
      BRAND_URL_ADDR |-> "http://acme", INDUSTRY_NAME |-> "shops",
      SUBINDUSTRY_ID |-> "3", SUBINDUSTRY_NAME |-> "toys"] :
        ty \in {"retail", "online"}}

DailySamples ==
    {[BRAND_ID |-> "7", BRAND_NAME |-> "acme", SPEND_AMOUNT |-> s[2],
      STATE_ABBR |-> s[1], TRANS_COUNT |-> "3", TRANS_DATE |-> s[3],
      VERSION |-> "2021-01-20"] :
        s \in {<<"CA", "1", "2021-01-19">>, <<"NY", "1", "">>,
               <<"NY", "2", "not-a-date">>}}

\* a row a table holds before the first run
OldRow(t) ==
    IF t = Brand
    THEN [BRAND_ID |-> 1, BRAND_NAME |-> "old", BRAND_TYPE |-> "retail",
          BRAND_URL_ADDR |-> "http://old", INDUSTRY_NAME |-> "shops",
          SUBINDUSTRY_ID |-> 3, SUBINDUSTRY_NAME |-> "toys"]
    ELSE [BRAND_ID |-> 1, BRAND_NAME |-> "old", SPEND_AMOUNT |-> 9,
          STATE_ABBR |-> "TX", TRANS_COUNT |-> 3,
          TRANS_DATE |-> "2021-01-19", VERSION |-> "2021-01-20"]

ExactHeader(cols) == [i \in 1..Len(cols) |-> <<cols[i]>>]

PaddedHeader(cols) ==
    [i \in 1..Len(cols) |-> IF i % 2 = 1 THEN <<SP, cols[i]>>
                                         ELSE <<cols[i], SP, SP>>]

\* keep the cells of cols whose name is not c
RECURSIVE Without(_, _)
Without(cols, c) ==
    IF cols = <<>> THEN <<>>
    ELSE IF Head(cols) = c THEN Without(Tail(cols), c)
    ELSE <<Head(cols)>> \o Without(Tail(cols), c)

\* the header lines a file of table t is given: exact, padded with
\* whitespace, one column short, one column too many
Headers(t) ==
    LET cols == IF t = Brand THEN BrandCols ELSE DailyCols
        drop == IF t = Brand THEN "BRAND_TYPE" ELSE "STATE_ABBR"
    IN  {ExactHeader(cols), PaddedHeader(cols),
         ExactHeader(Without(cols, drop)),
         ExactHeader(cols) \o <<<<"EXTRA">>>>}

\* the cell of sample record r under header cell h
Field(r, h) ==
    LET n == strip(h)
    IN  IF Len(n) = 1 /\ n[1] \in DOMAIN r THEN r[n[1]] ELSE "x"

CsvFile(h, ss) ==
    [present |-> TRUE, columns |-> h,
     rows |-> [i \in 1..Len(ss) |-> [j \in 1..Len(h) |-> Field(ss[i], h[j])]]]

NoFile == [present |-> FALSE, columns |-> <<>>, rows |-> <<>>]

Files(t) ==
    LET samples == IF t = Brand THEN BrandSamples ELSE DailySamples
    IN  {NoFile} \cup
        {CsvFile(h, ss) : h \in Headers(t), ss \in SeqsUpTo(samples, MaxRows)}

PlainSample(t) ==
    IF t = Brand THEN CHOOSE s \in BrandSamples : s.BRAND_TYPE = "retail"
                 ELSE CHOOSE s \in DailySamples : s.STATE_ABBR = "CA"

\* an ordinary file: the exact header and one row
PlainFile(t) ==
    CsvFile(ExactHeader(IF t = Brand THEN BrandCols ELSE DailyCols),
            <<PlainSample(t)>>)

\* --------------------------------------------------------------- pandas
NoFrame == [columns |-> <<>>, rows |-> <<>>]

\* the numbers the files spell
Numeral == [n \in {"1", "2", "3", "7", "9"} |->
              CASE n = "1" -> 1 [] n = "2" -> 2 [] n = "3" -> 3
                [] n = "7" -> 7 [] n = "9" -> 9]

\* read_csv parses a numeric cell and leaves a blank cell as NaN, which
\* to_sql stores as NULL
ReadCell(v) ==
    IF v = "" THEN NULL
    ELSE IF v \in DOMAIN Numeral THEN Numeral[v] ELSE v

read_csv(f) ==
    [columns |-> f.columns,
     rows |-> [i \in 1..Len(f.rows) |->
                 [j \in 1..Len(f.columns) |-> ReadCell(f.rows[i][j])]]]

\* df.columns = [c.strip() for c in df.columns]
StripColumns(df) ==
    [df EXCEPT !.columns = [j \in 1..Len(df.columns) |-> strip(df.columns[j])]]

\* pd.to_datetime(..., errors="coerce"): what does not parse becomes NaT
to_datetime(v) == IF v \in ValidDates THEN v ELSE NULL

DateCols == {"TRANS_DATE", "VERSION"}

\* for col in ("TRANS_DATE", "VERSION"): if col in daily_df.columns: coerce
CoerceDates(df) ==
    [df EXCEPT !.rows =
        [i \in 1..Len(df.rows) |->
            [j \in 1..Len(df.columns) |->
                IF \E d \in DateCols : df.columns[j] = <<d>>
                THEN to_datetime(df.rows[i][j])
                ELSE df.rows[i][j]]]]

\* a frame column the table does not have: INSERT is rejected
\* ("Invalid column name")
UnknownColumns(t, df) ==
    {j \in 1..Len(df.columns) : \A c \in TableCols(t) : df.columns[j] # <<c>>}

\* the row INSERT stores for frame row i: the INSERT names the frame's
\* columns only, and every other (nullable) column of the table takes NULL
SqlRow(t, df, i) ==
    [c \in TableCols(t) |->
        IF \E j \in 1..Len(df.columns) : df.columns[j] = <<c>>
        THEN df.rows[i][CHOOSE j \in 1..Len(df.columns) : df.columns[j] = <<c>>]
        ELSE NULL]

SqlRows(t, df) == [i \in 1..Len(df.rows) |-> SqlRow(t, df, i)]

\* to_sql executes no INSERT at all for a frame without rows
InsertRejected(t, df) == Len(df.rows) > 0 /\ UnknownColumns(t, df) # {}

\* ------------------------------------------------------------ smoke tests
RECURSIVE SumSpend(_, _)
SumSpend(rs, g) ==
    IF rs = <<>> THEN 0
    ELSE (IF Head(rs).STATE_ABBR = g THEN Head(rs).SPEND_AMOUNT ELSE 0)
         + SumSpend(Tail(rs), g)

Groups(rs) == {rs[i].STATE_ABBR : i \in 1..Len(rs)}

Min(a, b) == IF a < b THEN a ELSE b

\* SELECT TOP 5 STATE_ABBR, SUM(SPEND_AMOUNT) ... ORDER BY TotalSpend DESC:
\* every answer the server may give; ORDER BY names no tie-breaker, so the
\* order among equal sums, and which of them fall within the first five,
\* is not determined
TopSpend(rs) ==
    LET G == Groups(rs)
        k == Min(TopN, Cardinality(G))
    IN  {[i \in 1..k |-> <<s[i], SumSpend(rs, s[i])>>] :
           s \in {q \in [1..k -> G] :
                    /\ \A i, j \in 1..k : i < j =>
                          /\ q[i] # q[j]
                          /\ SumSpend(rs, q[i]) >= SumSpend(rs, q[j])
                    /\ \A g \in G \ Range(q) :
                          k > 0 /\ SumSpend(rs, g) <= SumSpend(rs, q[k])}}

\* ------------------------------------------------------------------ state
VARIABLES
    tables,     \* sys.tables: the tables of schema dbo that exist
    width,      \* declared NVARCHAR width of each string column, in characters
    rows,       \* committed rows of each table, in insertion order
    BRAND_CSV,  \* the file at the brand path
    DAILY_CSV,  \* the file at the daily path
    status,     \* of each process: idle, running, failed, killed, done
    pc,         \* the statement a running process is at (or failed / died at)
    brand_df,   \* each process's brand frame
    daily_df,   \* each process's daily frame
    alters,     \* the ALTER COLUMN statements the process's WIDEN batch ran
    trace,      \* the steps the process's current run has completed, in order
    prior,      \* the rows of each table when the process's current run began
    report,     \* what the smoke tests of the current run printed
    prevReport, \* what the run just before printed, if it ran to completion
    runs        \* how many runs have been started

vars == <<tables, width, rows, BRAND_CSV, DAILY_CSV, status, pc, brand_df,
          daily_df, alters, trace, prior, report, prevReport, runs>>

db    == <<tables, width, rows>>
files == <<BRAND_CSV, DAILY_CSV>>
dfs   == <<brand_df, daily_df>>

\* a script that clears the tables before it reads the files
StepOrderTruncateFirst ==
    <<"config", "engine", "ddl", "widen", "truncate", "read_brand",
      "read_daily", "normalize", "insert_brand", "insert_daily", "verify">>

\* the statements of the script, top to bottom
StepOrder ==
    <<"config", "engine", "ddl", "widen", "read_brand", "read_daily",
      "normalize", "truncate", "insert_brand", "insert_daily", "verify">>

NextStep(s) ==
    LET i == CHOOSE k \in 1..Len(StepOrder) : StepOrder[k] = s
    IN  IF i = Len(StepOrder) THEN "end" ELSE StepOrder[i + 1]

NoReport == [printed |-> FALSE]

\* ------------------------------------------------------------ initial states
WidthChoices(c) ==
    IF c = URL THEN {100, 4000, NVARCHAR_MAX}
    ELSE {WidenTo(c) \div 4, WidenTo(c) \div 2, WidenTo(c), 2 * WidenTo(c),
          NVARCHAR_MAX}

AllWidths == UNION {WidthChoices(c) : c \in WidthCols}

PriorRows(t) == {[i \in 1..n |-> OldRow(t)] : n \in 0..MaxPrior}

\* what earlier versions of the script, or nobody, left in the database
InitDb ==
    /\ tables \in SUBSET TableNames
    /\ \E D \in {S \in SUBSET WidthCols : Cardinality(S) <= MaxDrift} :
         \E f \in [D -> AllWidths] :
            /\ \A c \in D : f[c] \in WidthChoices(c)
            /\ width = [c \in WidthCols |->
                          IF c[1] \notin tables THEN NoColumn
                          ELSE IF c \in D THEN f[c] ELSE DDLWidth(c)]
    /\ \E rb \in PriorRows(Brand), rd \in PriorRows(Daily) :
         rows = [t \in TableNames |->
                   IF t \notin tables THEN <<>>
                   ELSE IF t = Brand THEN rb ELSE rd]

InitProcs ==
    /\ status = [p \in Procs |-> "idle"]
    /\ pc = [p \in Procs |-> "config"]
    /\ brand_df = [p \in Procs |-> NoFrame]
    /\ daily_df = [p \in Procs |-> NoFrame]
    /\ alters = [p \in Procs |-> {}]
    /\ trace = [p \in Procs |-> <<>>]
    /\ prior = [p \in Procs |-> rows]
    /\ report = [p \in Procs |-> NoReport]
    /\ prevReport = [p \in Procs |-> NoReport]
    /\ runs = 0

\* Either the schema is whatever was left behind and the files are plain,
\* or the schema is the one DDL creates and one of the two files is anything.
Init ==
    /\ \/ /\ InitDb
          /\ BRAND_CSV = PlainFile(Brand)
          /\ DAILY_CSV = PlainFile(Daily)
       \/ /\ InitDb
          /\ tables = TableNames
          /\ width = [c \in WidthCols |-> DDLWidth(c)]
          /\ \/ BRAND_CSV \in Files(Brand) /\ DAILY_CSV = PlainFile(Daily)
             \/ BRAND_CSV = PlainFile(Brand) /\ DAILY_CSV \in Files(Daily)
    /\ InitProcs

\* two instances: the schema DDL creates, tables of 0..MaxPrior rows, a plain
\* brand file and a well-formed daily file of 0..MaxRows rows
InitConc ==
    /\ tables = TableNames
    /\ width = [c \in WidthCols |-> DDLWidth(c)]
    /\ \E n \in 0..MaxPrior :
         rows = [t \in TableNames |-> [i \in 1..n |-> OldRow(t)]]
    /\ BRAND_CSV = PlainFile(Brand)
    /\ \E n \in 0..MaxRows :
         DAILY_CSV = CsvFile(ExactHeader(DailyCols),
                             [i \in 1..n |-> PlainSample(Daily)])
    /\ InitProcs

\* ------------------------------------------------------------------ steps
At(p, s) == status[p] = "running" /\ pc[p] = s

\* the statement at pc[p] completed: go on to the next one
Completes(p) ==
    /\ pc' = [pc EXCEPT ![p] = NextStep(pc[p])]
    /\ trace' = [trace EXCEPT ![p] = Append(trace[p], pc[p])]
    /\ status' = [status EXCEPT ![p] =
                    IF NextStep(pc[p]) = "end" THEN "done" ELSE "running"]

\* an exception that is caught and ignored: the script goes on
RaisesSwallowed(p) ==
    /\ pc' = [pc EXCEPT ![p] = NextStep(pc[p])]
    /\ status' = [status EXCEPT ![p] =
                    IF NextStep(pc[p]) = "end" THEN "done" ELSE "running"]
    /\ UNCHANGED trace

\* the statement at pc[p] raised: nothing catches it, the interpreter exits
Raises(p) ==
    /\ status' = [status EXCEPT ![p] = "failed"]
    /\ UNCHANGED <<pc, trace>>

\* python load_data.py
Start(p) ==
    /\ status[p] # "running"
    /\ runs < MaxRuns
    /\ runs' = runs + 1
    /\ status' = [status EXCEPT ![p] = "running"]
    /\ pc' = [pc EXCEPT ![p] = StepOrder[1]]
    /\ trace' = [trace EXCEPT ![p] = <<>>]
    /\ brand_df' = [brand_df EXCEPT ![p] = NoFrame]
    /\ daily_df' = [daily_df EXCEPT ![p] = NoFrame]
    /\ alters' = [alters EXCEPT ![p] = {}]
    /\ prior' = [prior EXCEPT ![p] = rows]
    /\ prevReport' = [prevReport EXCEPT ![p] =
                        IF status[p] = "done" THEN report[p] ELSE NoReport]
    /\ report' = [report EXCEPT ![p] = NoReport]
    /\ UNCHANGED <<db, files>>

\* os.environ[...] four times: KeyError when a variable is not set
Configure(p) ==
    /\ At(p, "config")
    /\ \E env \in {EnvVars} \cup {EnvVars \ {v} : v \in EnvVars} :
         IF EnvVars \subseteq env THEN Completes(p) ELSE Raises(p)
    /\ UNCHANGED <<db, files, dfs, alters, prior, report, prevReport, runs>>

\* sa.create_engine: builds the engine, connects to nothing yet
CreateEngine(p) ==
    /\ At(p, "engine")
    /\ Completes(p)
    /\ UNCHANGED <<db, files, dfs, alters, prior, report, prevReport, runs>>

\* with engine.begin() as conn: conn.exec_driver_sql(DDL)
RunDDL(p) ==
    /\ At(p, "ddl")
    /\ \/ /\ tables' = TableNames
          /\ width' = CreatedWidth(tables, width)
          /\ Completes(p)
       \/ /\ Raises(p)     \* no connection, or the batch is rejected: rollback
          /\ UNCHANGED <<tables, width>>
    /\ UNCHANGED <<rows, files, dfs, alters, prior, report, prevReport, runs>>

\* with engine.begin() as conn: conn.exec_driver_sql(WIDEN)
RunWIDEN(p) ==
    /\ At(p, "widen")
    /\ \/ /\ TableNames \subseteq tables
          /\ width' = WidenedWidth(width)
          /\ alters' = [alters EXCEPT ![p] = WidenAlters(width)]
          /\ Completes(p)
       \/ /\ Raises(p)     \* the batch, or a statement of it, is rejected (the
                            \* empty BEGIN..END block, an ALTER that would
                            \* truncate stored data, a privilege): rollback
          /\ UNCHANGED <<width, alters>>
    /\ UNCHANGED <<tables, rows, files, dfs, prior, report, prevReport, runs>>

\* brand_df = pd.read_csv(BRAND_CSV, ...): FileNotFoundError if it is missing
ReadBrand(p) ==
    /\ At(p, "read_brand")
    /\ IF BRAND_CSV.present
       THEN brand_df' = [brand_df EXCEPT ![p] = read_csv(BRAND_CSV)]
            /\ Completes(p)
       ELSE Raises(p) /\ UNCHANGED brand_df
    /\ UNCHANGED <<db, files, daily_df, alters, prior, report, prevReport, runs>>

\* daily_df = pd.read_csv(DAILY_CSV, ...)
ReadDaily(p) ==
    /\ At(p, "read_daily")
    /\ IF DAILY_CSV.present
       THEN daily_df' = [daily_df EXCEPT ![p] = read_csv(DAILY_CSV)]
            /\ Completes(p)
       ELSE Raises(p) /\ UNCHANGED daily_df
    /\ UNCHANGED <<db, files, brand_df, alters, prior, report, prevReport, runs>>

\* strip both frames' column names, then coerce the daily date columns
Normalize(p) ==
    /\ At(p, "normalize")
    /\ brand_df' = [brand_df EXCEPT ![p] = StripColumns(brand_df[p])]
    /\ daily_df' = [daily_df EXCEPT ![p] =
                      CoerceDates(StripColumns(daily_df[p]))]
    /\ Completes(p)
    /\ UNCHANGED <<db, files, alters, prior, report, prevReport, runs>>

\* a load that forgets to clear the tables
KeepTables(p) ==
    /\ TableNames \subseteq tables
    /\ rows' = rows
    /\ Completes(p)

\* a load that waits until no other instance is between truncate and verify
TruncateExclusive(p) ==
    /\ TableNames \subseteq tables
    /\ \A q \in Procs \ {p} :
          ~(status[q] = "running"
            /\ pc[q] \in {"insert_brand", "insert_daily", "verify"})
    /\ rows' = [t \in TableNames |-> <<>>]
    /\ Completes(p)

\* TRUNCATE TABLE dbo.BrandDetail; TRUNCATE TABLE dbo.ConsumerSpendDaily;
TruncateTables(p) ==
    /\ TableNames \subseteq tables
    /\ rows' = [t \in TableNames |-> <<>>]
    /\ Completes(p)

\* with engine.begin() as conn: both TRUNCATEs in one transaction
Truncate(p) ==
    /\ At(p, "truncate")
    /\ \/ TruncateTables(p)
       \/ /\ Raises(p)
          /\ UNCHANGED rows
    /\ UNCHANGED <<tables, width, files, dfs, alters, prior, report,
                   prevReport, runs>>

\* df.to_sql(t, if_exists="append", ...): every chunk in one transaction
to_sql(p, t, df) ==
    /\ \/ /\ ~InsertRejected(t, df)
          /\ rows' = [rows EXCEPT ![t] = rows[t] \o SqlRows(t, df)]
          /\ Completes(p)
       \/ /\ Raises(p)     \* rejected or interrupted: the transaction rolls back
          /\ UNCHANGED rows
    /\ UNCHANGED <<tables, width, files, dfs, alters, prior, report,
                   prevReport, runs>>

InsertBrand(p) == At(p, "insert_brand") /\ to_sql(p, Brand, brand_df[p])

InsertDaily(p) == At(p, "insert_daily") /\ to_sql(p, Daily, daily_df[p])

\* the three smoke-test queries, then print("Load complete")
Verify(p) ==
    /\ At(p, "verify")
    /\ \/ /\ \E top \in TopSpend(rows[Daily]) :
               report' = [report EXCEPT ![p] =
                  [printed |-> TRUE,
                   counts |-> [t \in TableNames |-> Len(rows[t])],
                   top |-> top]]
          /\ Completes(p)
       \/ /\ Raises(p)
          /\ UNCHANGED report
    /\ UNCHANGED <<db, files, dfs, alters, prior, prevReport, runs>>

\* the process is killed between two statements; a transaction in flight
\* is rolled back by the server, which leaves the state before it
Kill(p) ==
    /\ status[p] = "running"
    /\ status' = [status EXCEPT ![p] = "killed"]
    /\ UNCHANGED <<db, files, dfs, pc, alters, trace, prior, report,
                   prevReport, runs>>

Run(p) ==
    \/ Start(p)
    \/ Configure(p)
    \/ CreateEngine(p)
    \/ RunDDL(p)
    \/ RunWIDEN(p)
    \/ ReadBrand(p)
    \/ ReadDaily(p)
    \/ Normalize(p)
    \/ Truncate(p)
    \/ InsertBrand(p)
    \/ InsertDaily(p)
    \/ Verify(p)
    \/ Kill(p)

\* one instance at a time, started again after it ended
Next == Run(1)

Spec == Init /\ [][Next]_vars

\* two instances against the same database, with nothing between them
NextConc == \E p \in Procs : Run(p)

SpecConc == InitConc /\ [][NextConc]_vars

\* ------------------------------------------------------------------ claims
\* the steps of a run, in the order the specification gives them
ExpectedOrder ==
    <<"config", "engine", "ddl", "widen", "read_brand", "read_daily",
      "normalize", "truncate", "insert_brand", "insert_daily", "verify">>

\* the minimum width the specification declares for each column
MinimumWidth(c) ==
    CASE c = <<Brand, "BRAND_NAME">>       -> 400
      [] c = <<Brand, "BRAND_TYPE">>       -> 100
      [] c = URL                           -> NVARCHAR_MAX
      [] c = <<Brand, "INDUSTRY_NAME">>    -> 200
      [] c = <<Brand, "SUBINDUSTRY_NAME">> -> 200
      [] c = <<Daily, "BRAND_NAME">>       -> 400
      [] c = <<Daily, "STATE_ABBR">>       -> 50

Did(p, s) == s \in Range(trace[p])

CsvOf(t) == IF t = Brand THEN BRAND_CSV ELSE DAILY_CSV

InsertStep(t) == IF t = Brand THEN "insert_brand" ELSE "insert_daily"

\* the column names of a file, trimmed
TrimmedNames(f) == {strip(f.columns[j]) : j \in 1..Len(f.columns)}

\* what a table stores for the cell v of column c of a file
StoredCell(c, v) ==
    IF c \in DateCols THEN to_datetime(ReadCell(v)) ELSE ReadCell(v)

\* table t holds the rows of its file, one for one and in order: each column
\* the file has carries the file's cell, every other column is NULL
HoldsFile(t) ==
    LET f == CsvOf(t)
    IN  /\ Len(rows[t]) = Len(f.rows)
        /\ \A i \in 1..Len(f.rows) : \A c \in TableCols(t) :
              IF <<c>> \in TrimmedNames(f)
              THEN \E j \in 1..Len(f.columns) :
                      /\ strip(f.columns[j]) = <<c>>
                      /\ rows[t][i][c] = StoredCell(c, f.rows[i][j])
              ELSE rows[t][i][c] = NULL

\* C1: once a run has completed the insert of a table, and until the next
\* run starts, the table holds exactly the N rows of its input file (N >= 0)
\* and none of the rows it held before the run.
FullReplace ==
    \A t \in TableNames :
        Did(1, InsertStep(t)) =>
            /\ HoldsFile(t)
            /\ \A i \in 1..Len(rows[t]) : rows[t][i] # OldRow(t)

FullReplaceWitness ==
    /\ status[1] = "done"
    /\ prior[1][Daily] # <<>>
    /\ prior[1][Brand] # <<>>
    /\ Len(DAILY_CSV.rows) = 2
    /\ Len(rows[Daily]) = 2
    /\ rows[Daily][1] # rows[Daily][2]

\* C2: in every state a reader can observe, each table holds either all the
\* rows it held when the run began or the complete new dataset, never an
\* empty or partly filled table.
AtomicReplace ==
    \A t \in TableNames :
        status[1] # "idle" /\ CsvOf(t).present =>
            rows[t] = prior[1][t] \/ HoldsFile(t)

\* C3: after the WIDEN batch has run, every column with a declared minimum
\* width is at least that wide.
WideningReachesMinimum ==
    Did(1, "widen") =>
        \A c \in WidthCols \ {URL} : width[c] >= MinimumWidth(c)

\* C4: no step ever decreases the width of a column.
WideningNeverShrinks ==
    [][\A c \in WidthCols : width[c] # NoColumn => width'[c] >= width[c]]_vars

\* C5: the WIDEN batch issues ALTER COLUMN only for a column narrower than
\* its minimum: none for BRAND_URL_ADDR when it is already NVARCHAR(MAX),
\* and none at all once every minimum is reached.
UnboundedIsNoOp ==
    \A a \in alters[1] : a.from < MinimumWidth(a.col)

\* C6: a file whose trimmed column set is not the table's column set is never
\* loaded: the insert of a file with rows does not complete.
ColumnSetEnforced ==
    \A t \in TableNames :
        LET f == CsvOf(t)
        IN  (/\ f.present
             /\ Len(f.rows) > 0
             /\ TrimmedNames(f) # {<<c>> : c \in TableCols(t)})
            => ~Did(1, InsertStep(t))

\* C7: a run that completes right after a completed run, with the same
\* files, prints the same row counts and the same top-5 result.
PipelineIdempotent ==
    (status[1] = "done" /\ prevReport[1].printed) => report[1] = prevReport[1]

IsPrefix(s, t) == Len(s) <= Len(t) /\ \A i \in 1..Len(s) : s[i] = t[i]

GatingState(p) ==
    /\ IsPrefix(trace[p], ExpectedOrder)
    /\ status[p] \in {"running", "failed", "killed"} =>
          /\ Len(trace[p]) < Len(ExpectedOrder)
          /\ pc[p] = ExpectedOrder[Len(trace[p]) + 1]
    /\ status[p] = "done" <=> (status[p] # "idle" /\ trace[p] = ExpectedOrder)
    /\ report[p].printed => status[p] = "done"

GatingStep(p) ==
    /\ status[p] = "failed" =>
          \/ status'[p] = "failed" /\ trace'[p] = trace[p] /\ pc'[p] = pc[p]
          \/ status'[p] = "running" /\ trace'[p] = <<>> /\ runs' = runs + 1
    /\ trace'[p] # trace[p] =>
          \/ trace'[p] = <<>>
          \/ status[p] = "running" /\ trace'[p] = Append(trace[p], pc[p])

\* C8: the steps of a run execute in the fixed order, each at most once; a
\* step that fails ends the run: no later step executes, nothing is retried
\* and completion is not reported.
SequentialGating ==
    /\ [](\A p \in Procs : GatingState(p))
    /\ [][\A p \in Procs : GatingStep(p)]_vars

SequentialGatingWitness ==
    /\ status[1] = "failed"
    /\ pc[1] = "insert_brand"
    /\ trace[1] = SubSeq(ExpectedOrder, 1, 8)
    /\ runs = 2

\* C9: nothing makes an instance wait for the other: whenever an instance is
\* at the truncate step its TRUNCATE transaction can commit, wherever the
\* other instance is.
NoMutualExclusion ==
    \A p \in Procs : At(p, "truncate") => ENABLED TruncateTables(p)

\* both instances truncated and then both inserted: twice the input
NoMutualExclusionWitness ==
    /\ status[1] = "done"
    /\ status[2] = "done"
    /\ Len(DAILY_CSV.rows) = 2
    /\ Len(rows[Daily]) = 4
    /\ Len(rows[Brand]) = 2

\* C10: a run that ends because a source file cannot be read leaves the rows
\* of both tables as they were when it began.
ReadBeforeClear ==
    (status[1] = "failed" /\ pc[1] \in {"read_brand", "read_daily"})
        => rows = prior[1]

ReadBeforeClearWitness ==
    /\ status[1] = "failed"
    /\ pc[1] = "read_daily"
    /\ ~DAILY_CSV.present
    /\ rows[Brand] # <<>>
    /\ rows[Daily] # <<>>
    /\ Did(1, "widen")

====
